---- MODULE Spec2Model ----
(***************************************************************************)
(* Book Trading Club: the trade controller (createTrade,                   *)
(* markTradesAsSeen, updateTradeStatus, completeTrade), the Trade model's  *)
(* pre-save hook and the book controller's updateBook and deleteBook, as   *)
(* request handlers running against the Book and Trade collections, and    *)
(* the notification the client's store appends when its status update is   *)
(* answered.                                                               *)
(*                                                                         *)
(* Every handler is an async function: each `await` on a database call is  *)
(* one step of the model, and the steps of different requests interleave.  *)
(* The two calls of a Promise.all run in either order.  A database call    *)
(* may throw; the handler's catch block then answers 500.                  *)
(***************************************************************************)
EXTENDS Integers, Sequences, FiniteSets, TLC

\* ---- bounds ----
NumUsers == 2
NumBooks == 2
MaxTrades == 2
MaxInFlight == 2
MaxReqs == 4
MaxConns == 3
MaxReceived == 2
MaxLive == 2
MaxSent == 2

Users == 1..NumUsers
Books == 1..NumBooks
Slots == 1..MaxInFlight
\* ids a client may send; one of them names no document
TradeIds == 1..(MaxTrades + 1)
BookIds == 1..(NumBooks + 1)

VARIABLES books, userBooks, trades, reqs, resp, nreq, okFromPending,
          notifications

\* the server's connections of the realtime channel
VARIABLES conns, lastBroadcast

\* the store of one browser: the signed-in user, its copy of the user's
\* trades and the count its badge shows
VARIABLES currentUser, storeTrades, unseenTradesCount

\* one useWebSocket instance in a browser
VARIABLES options, mounted, wsRef, reconnectTimerRef, sockets, timers,
          lastSend

\* notifications: the entries the last step appended to the notifications of
\* the store that sent the request (the list itself only ever grows)

dbVars ==
  <<books, userBooks, trades, reqs, resp, nreq, okFromPending, notifications>>

chanVars == <<conns, lastBroadcast>>

storeVars == <<currentUser, storeTrades, unseenTradesCount>>

hookVars == <<options, mounted, wsRef, reconnectTimerRef, sockets,
              timers, lastSend>>

vars == <<books, userBooks, trades, reqs, resp, nreq, okFromPending,
          notifications,
          chanVars, hookVars, storeVars>>

\* ---- Trade model ----
TradeStatus == {"pending", "accepted", "rejected", "completed", "cancelled"}

\* the statuses a client may put in the body of PUT /trades/:id
RequestedStatuses == {"accepted", "rejected", "cancelled", "completed"}

validStatuses == {"accepted", "rejected", "cancelled"}

\* ---- request records ----
NoUser == 0
NoId == 0

\* an update document: the fields it sets (owner = NoUser: owner not set)
NoUpdate == [owner |-> NoUser, hasAvail |-> FALSE, avail |-> FALSE]

Idle ==
  [kind |-> "idle", pc |-> "idle", user |-> NoUser, id |-> NoId,
   status |-> "none", body |-> NoUpdate, docStatus |-> "none",
   docIsSeen |-> FALSE,
   bookOffered |-> NoId, bookRequested |-> NoId, receiver |-> NoUser,
   doneOffered |-> FALSE, doneRequested |-> FALSE, ok |-> TRUE,
   changed |-> FALSE]

\* the answer sent by the last step, if it sent one
NoResp == [kind |-> "none", code |-> 0]

Response(kind, code) == [kind |-> kind, code |-> code]

TradeExists(id) == id \in DOMAIN trades

BookExists(id) == id \in Books /\ books[id].exists

\* a new request takes the lowest free slot (the slots are interchangeable)
CanStart(s) ==
  /\ reqs[s].kind = "idle"
  /\ \A s2 \in Slots : s2 < s => reqs[s2].kind # "idle"

\* the collections as the requests find them, no request in flight
DbInit ==
  /\ books = [b \in Books |->
               [exists |-> TRUE, owner |-> ((b - 1) % NumUsers) + 1,
                isAvailable |-> TRUE]]
  /\ userBooks = [u \in Users |->
                   {b \in Books : ((b - 1) % NumUsers) + 1 = u}]
  /\ trades = <<>>
  /\ reqs = [s \in Slots |-> Idle]
  /\ resp = NoResp
  /\ nreq = 0
  /\ okFromPending = [t \in 1..MaxTrades |-> <<>>]
  /\ notifications = <<>>

\* no connection at the server
ChanInit ==
  /\ conns = <<>>
  /\ lastBroadcast = [userId |-> NoUser, message |-> "none"]

\* the component that uses the hook is not mounted yet
\* the sockets the hook has created and the timers it has set that still can
\* act or are still referred to by a ref; stale: created before a cleanup
SocketIds == 1..(MaxLive + 1)
TimerIds == 1..(MaxLive + 2)

NoSocket ==
  [readyState |-> "NONE", onclose |-> FALSE, sent |-> <<>>, stale |-> FALSE]

NoTimer == [state |-> "none", delay |-> 0, behind |-> {}, stale |-> FALSE]

HookDown(opts) ==
  /\ options = opts
  /\ mounted = "no"
  /\ wsRef = NoId
  /\ reconnectTimerRef = NoId
  /\ sockets = [i \in SocketIds |-> NoSocket]
  /\ timers = [t \in TimerIds |-> NoTimer]
  /\ lastSend = "none"

\* the options NotificationCenter passes
NotificationOptions ==
  [token |-> TRUE, autoReconnect |-> TRUE, notifications |-> TRUE]

\* no trade in the store's list at this id
NoTrade ==
  [initiator |-> NoUser, receiver |-> NoUser, bookOffered |-> NoId,
   bookRequested |-> NoId, status |-> "none", isSeen |-> FALSE]

\* the store of `user` right after sign-in
StoreDown(user) ==
  /\ currentUser = user
  /\ storeTrades = [id \in 1..MaxTrades |-> NoTrade]
  /\ unseenTradesCount = 0

Init ==
  /\ DbInit
  /\ ChanInit
  /\ HookDown(NotificationOptions)
  /\ StoreDown(1)

\* the request budget: a request draws one unit, two if it arrives while
\* another request is in flight.  Users and books are interchangeable (Init is
\* unchanged by renumbering both alike), so the first request is user 1's.
Cost == IF \E s \in Slots : reqs[s].kind # "idle" THEN 2 ELSE 1

Admit(user) ==
  /\ nreq + Cost <= MaxReqs
  /\ nreq = 0 => user = 1

\* an early return: the handler answers and holds no state afterwards
Reject(r, code) ==
  /\ Admit(r.user)
  /\ resp' = Response(r.kind, code)
  /\ UNCHANGED <<chanVars, hookVars, storeVars>>
  /\ nreq' = nreq + Cost
  /\ UNCHANGED <<books, trades, reqs, okFromPending>>
  /\ notifications' = <<>>
  /\ UNCHANGED userBooks

\* the handler passed its checks and waits on its next database call
Proceed(s, r) ==
  /\ Admit(r.user)
  /\ reqs' = [reqs EXCEPT ![s] = r]
  /\ resp' = NoResp
  /\ UNCHANGED <<chanVars, hookVars, storeVars>>
  /\ nreq' = nreq + Cost
  /\ UNCHANGED <<books, trades, okFromPending>>
  /\ notifications' = <<>>
  /\ UNCHANGED userBooks

\* the handler answers: its slot is free again
Finish(s, code) ==
  /\ resp' = Response(reqs[s].kind, code)
  /\ UNCHANGED <<chanVars, hookVars, storeVars>>
  /\ reqs' = [reqs EXCEPT ![s] = Idle]
  /\ UNCHANGED nreq

\* ---- Book collection ----
ApplyUpdate(book, upd) ==
  [exists |-> book.exists,
   owner |-> IF upd.owner = NoUser THEN book.owner ELSE upd.owner,
   isAvailable |-> IF upd.hasAvail THEN upd.avail ELSE book.isAvailable]

\* Book.findByIdAndUpdate: no document, no write and no error
FindByIdAndUpdate(id, upd) ==
  IF BookExists(id) THEN [books EXCEPT ![id] = ApplyUpdate(@, upd)] ELSE books

\* ---- createTrade ----
\* trades a client may still create within the bound
CreatesInFlight == Cardinality({s \in Slots : reqs[s].kind = "createTrade"
                                              /\ reqs[s].pc = "hook"})

createTrade(s, user, bookOffered, bookRequested) ==
  /\ CanStart(s)
  /\ Len(trades) + CreatesInFlight < MaxTrades
  /\ LET r == [Idle EXCEPT !.kind = "createTrade", !.user = user,
                           !.bookOffered = bookOffered,
                           !.bookRequested = bookRequested]
     IN  IF bookOffered = NoId \/ bookRequested = NoId
         THEN Reject(r, 400)
         ELSE IF ~BookExists(bookRequested)
         THEN Reject(r, 404)
         ELSE Proceed(s, [r EXCEPT !.pc = "hook",
                                   !.receiver = books[bookRequested].owner])

\* tradeSchema.pre('save'): what the hook requires of a book it has fetched
HookAccepts(id) == BookExists(id) /\ books[id].isAvailable

createTrade_hookOffered(s) ==
  /\ reqs[s].kind = "createTrade" /\ reqs[s].pc = "hook"
  /\ ~reqs[s].doneOffered
  /\ reqs' = [reqs EXCEPT ![s].doneOffered = TRUE,
                          ![s].ok = @ /\ HookAccepts(reqs[s].bookOffered)]
  /\ resp' = NoResp
  /\ UNCHANGED <<chanVars, hookVars, storeVars>>
  /\ UNCHANGED <<books, trades, nreq, okFromPending>>
  /\ notifications' = <<>>
  /\ UNCHANGED userBooks

createTrade_hookRequested(s) ==
  /\ reqs[s].kind = "createTrade" /\ reqs[s].pc = "hook"
  /\ ~reqs[s].doneRequested
  /\ reqs' = [reqs EXCEPT ![s].doneRequested = TRUE,
                          ![s].ok = @ /\ HookAccepts(reqs[s].bookRequested)]
  /\ resp' = NoResp
  /\ UNCHANGED <<chanVars, hookVars, storeVars>>
  /\ UNCHANGED <<books, trades, nreq, okFromPending>>
  /\ notifications' = <<>>
  /\ UNCHANGED userBooks

\* the hook throws a plain Error: the catch block answers 500
createTrade_hookThrows(s) ==
  /\ reqs[s].kind = "createTrade" /\ reqs[s].pc = "hook"
  /\ reqs[s].doneOffered /\ reqs[s].doneRequested /\ ~reqs[s].ok
  /\ Finish(s, 500)
  /\ UNCHANGED <<books, trades, okFromPending>>
  /\ notifications' = <<>>
  /\ UNCHANGED userBooks

\* (the caller written as receiver too)
NewTradeToCaller(r) ==
  [initiator |-> r.user, receiver |-> r.user,
   bookOffered |-> r.bookOffered, bookRequested |-> r.bookRequested,
   status |-> "pending", isSeen |-> FALSE]

\* Trade.create: the fields the handler passes and the schema's defaults
NewTrade(r) ==
  [initiator |-> r.user, receiver |-> r.receiver,
   bookOffered |-> r.bookOffered, bookRequested |-> r.bookRequested,
   status |-> "pending", isSeen |-> FALSE]

\* the client's store: the notification it appends when its POST /trades is
\* answered with the new trade
NewProposalNotification(trade, id) ==
  [userId |-> trade.receiver, type |-> "trade_proposal", relatedId |-> id]

\* (the notification goes out with the insert, before the answer)
createTrade_insertNotifying(s) ==
  /\ reqs[s].kind = "createTrade" /\ reqs[s].pc = "hook"
  /\ reqs[s].doneOffered /\ reqs[s].doneRequested /\ reqs[s].ok
  /\ trades' = Append(trades, NewTrade(reqs[s]))
  /\ reqs' = [reqs EXCEPT ![s].pc = "populate", ![s].id = Len(trades) + 1,
                          ![s].changed = TRUE]
  /\ resp' = NoResp
  /\ UNCHANGED <<chanVars, hookVars, storeVars>>
  /\ UNCHANGED userBooks
  /\ notifications' =
       <<NewProposalNotification(NewTrade(reqs[s]), Len(trades) + 1)>>
  /\ UNCHANGED <<books, nreq, okFromPending>>

createTrade_insert(s) ==
  /\ reqs[s].kind = "createTrade" /\ reqs[s].pc = "hook"
  /\ reqs[s].doneOffered /\ reqs[s].doneRequested /\ reqs[s].ok
  /\ trades' = Append(trades, NewTrade(reqs[s]))
  /\ reqs' = [reqs EXCEPT ![s].pc = "populate", ![s].id = Len(trades) + 1,
                          ![s].changed = TRUE]
  /\ resp' = NoResp
  /\ UNCHANGED <<chanVars, hookVars, storeVars>>
  /\ UNCHANGED <<books, nreq, okFromPending>>
  /\ notifications' = <<>>
  /\ UNCHANGED userBooks

\* the handler answers with the populated trade, and the store that sent the
\* request appends its notification
createTrade_respond(s) ==
  /\ reqs[s].kind = "createTrade" /\ reqs[s].pc = "populate"
  /\ Finish(s, 201)
  /\ UNCHANGED userBooks
  /\ notifications' =
       <<NewProposalNotification(trades[reqs[s].id], reqs[s].id)>>
  /\ UNCHANGED <<books, trades, okFromPending>>

\* ---- markTradesAsSeen ----
\* (every unseen trade marked, whoever receives it)
MarkSeenOfAnyone(trs, user) ==
  [t \in DOMAIN trs |-> [trs[t] EXCEPT !.isSeen = TRUE]]

\* (the flag of the user's received trades flipped)
MarkSeenFlips(trs, user) ==
  [t \in DOMAIN trs |->
     IF trs[t].receiver = user
     THEN [trs[t] EXCEPT !.isSeen = ~@] ELSE trs[t]]

\* Trade.updateMany({receiver, isSeen: false}, {isSeen: true})
MarkSeen(trs, user) ==
  [t \in DOMAIN trs |->
     IF trs[t].receiver = user /\ ~trs[t].isSeen
     THEN [trs[t] EXCEPT !.isSeen = TRUE] ELSE trs[t]]

markTradesAsSeen(user) ==
  /\ Admit(user)
  /\ trades' = MarkSeen(trades, user)
  /\ resp' = Response("markTradesAsSeen", 200)
  /\ UNCHANGED <<chanVars, hookVars, storeVars>>
  /\ nreq' = nreq + Cost
  /\ UNCHANGED <<books, reqs, okFromPending>>
  /\ notifications' = <<>>
  /\ UNCHANGED userBooks

\* updateMany rejects: the catch block answers 500
markTradesAsSeen_throws(user) ==
  /\ Admit(user)
  /\ resp' = Response("markTradesAsSeen", 500)
  /\ UNCHANGED <<chanVars, hookVars, storeVars>>
  /\ nreq' = nreq + Cost
  /\ UNCHANGED <<books, trades, reqs, okFromPending>>
  /\ notifications' = <<>>
  /\ UNCHANGED userBooks

\* ---- updateTradeStatus ----
IsValidStatus(status) == status \in validStatuses

\* the actor the handler lets through
MayUpdate(trade, user) == trade.receiver = user

updateTradeStatus(s, user, id, status) ==
  /\ CanStart(s)
  /\ LET r == [Idle EXCEPT !.kind = "updateTradeStatus", !.user = user,
                           !.id = id, !.status = status]
     IN  IF ~IsValidStatus(status)
         THEN Reject(r, 400)
         ELSE IF ~TradeExists(id)
         THEN Reject(r, 404)
         ELSE IF ~MayUpdate(trades[id], user)
         THEN Reject(r, 403)
         ELSE Proceed(s, [r EXCEPT
                !.pc = IF status = "accepted" THEN "books" ELSE "save",
                !.docStatus = trades[id].status,
                !.docIsSeen = trades[id].isSeen])

\* (an accept that leaves the books on the marketplace)
AcceptUpdateKeepsAvailable ==
  [owner |-> NoUser, hasAvail |-> FALSE, avail |-> FALSE]

\* the update an accept applies to each of the two books
AcceptUpdate == [owner |-> NoUser, hasAvail |-> TRUE, avail |-> FALSE]

\* one of the two book writes of a Promise.all; after both, the handler
\* goes on to `next`
BooksStep(s, which, id, upd, next) ==
  LET offered == reqs[s].doneOffered \/ which = "offered"
      requested == reqs[s].doneRequested \/ which = "requested"
  IN  /\ books' = FindByIdAndUpdate(id, upd)
      /\ reqs' = [reqs EXCEPT
                    ![s].doneOffered = offered,
                    ![s].doneRequested = requested,
                    ![s].pc = IF offered /\ requested THEN next ELSE @,
                    ![s].changed = @ \/ (books' # books)]
      /\ resp' = NoResp
      /\ UNCHANGED <<chanVars, hookVars, storeVars>>
      /\ UNCHANGED <<trades, nreq, okFromPending>>
      /\ notifications' = <<>>
      /\ UNCHANGED userBooks

updateTradeStatus_bookOffered(s) ==
  /\ reqs[s].kind = "updateTradeStatus" /\ reqs[s].pc = "books"
  /\ ~reqs[s].doneOffered
  /\ BooksStep(s, "offered", trades[reqs[s].id].bookOffered, AcceptUpdate,
               "save")

updateTradeStatus_bookRequested(s) ==
  /\ reqs[s].kind = "updateTradeStatus" /\ reqs[s].pc = "books"
  /\ ~reqs[s].doneRequested
  /\ BooksStep(s, "requested", trades[reqs[s].id].bookRequested, AcceptUpdate,
               "save")

\* document.save() of a loaded document writes the paths whose value the
\* handler changed, and no others
SaveTrade(trade, r, status, isSeen) ==
  [trade EXCEPT
     !.status = IF status # r.docStatus THEN status ELSE @,
     !.isSeen = IF isSeen # r.docIsSeen THEN isSeen ELSE @]

updateTradeStatus_save(s) ==
  /\ reqs[s].kind = "updateTradeStatus" /\ reqs[s].pc = "save"
  /\ trades' = [trades EXCEPT
                  ![reqs[s].id] = SaveTrade(@, reqs[s], reqs[s].status, TRUE)]
  /\ reqs' = [reqs EXCEPT ![s].pc = "populate",
                          ![s].changed = @ \/ (trades' # trades)]
  /\ resp' = NoResp
  /\ UNCHANGED <<chanVars, hookVars, storeVars>>
  /\ UNCHANGED <<books, nreq, okFromPending>>
  /\ notifications' = <<>>
  /\ UNCHANGED userBooks

\* the client's store: the type of the notification it appends
NotificationType(status) ==
  IF status = "accepted" THEN "trade_accepted" ELSE "trade_rejected"

\* the client's store: the notification it appends when its PUT /trades/:id
\* is answered with the updated trade
NewNotification(trade, id, status) ==
  [userId |-> trade.initiator, type |-> NotificationType(status),
   relatedId |-> id]

\* the handler answers with the populated trade, and the store that sent the
\* request appends its notification
updateTradeStatus_respond(s) ==
  /\ reqs[s].kind = "updateTradeStatus" /\ reqs[s].pc = "populate"
  /\ Finish(s, 200)
  /\ UNCHANGED userBooks
  /\ notifications' =
       <<NewNotification(trades[reqs[s].id], reqs[s].id, reqs[s].status)>>
  /\ okFromPending' =
       IF reqs[s].docStatus = "pending"
       THEN [okFromPending EXCEPT ![reqs[s].id] = Append(@, reqs[s].status)]
       ELSE okFromPending
  /\ UNCHANGED <<books, trades>>

\* ---- completeTrade ----
IsTradeParticipant(trade, user) == user \in {trade.initiator, trade.receiver}

\* (the check on the loaded status left out)
MayCompleteNoCheck(trade) == TRUE

\* the status the handler requires of the trade it loaded
MayComplete(trade) == trade.status = "accepted"

completeTrade(s, user, id) ==
  /\ CanStart(s)
  /\ LET r == [Idle EXCEPT !.kind = "completeTrade", !.user = user, !.id = id]
     IN  IF ~TradeExists(id)
         THEN Reject(r, 404)
         ELSE IF ~IsTradeParticipant(trades[id], user)
         THEN Reject(r, 403)
         ELSE IF ~MayComplete(trades[id])
         THEN Reject([r EXCEPT !.docStatus = trades[id].status], 400)
         ELSE Proceed(s, [r EXCEPT !.pc = "save",
                                   !.docStatus = trades[id].status,
                                   !.docIsSeen = trades[id].isSeen])

completeTrade_save(s) ==
  /\ reqs[s].kind = "completeTrade" /\ reqs[s].pc = "save"
  /\ trades' = [trades EXCEPT
                  ![reqs[s].id] =
                     SaveTrade(@, reqs[s], "completed", reqs[s].docIsSeen)]
  /\ reqs' = [reqs EXCEPT ![s].pc = "books",
                          ![s].changed = @ \/ (trades' # trades)]
  /\ resp' = NoResp
  /\ UNCHANGED <<chanVars, hookVars, storeVars>>
  /\ UNCHANGED <<books, nreq, okFromPending>>
  /\ notifications' = <<>>
  /\ UNCHANGED userBooks

\* the updates of the ownership swap
OfferedSwap(trade) ==
  [owner |-> trade.receiver, hasAvail |-> TRUE, avail |-> TRUE]

RequestedSwap(trade) ==
  [owner |-> trade.initiator, hasAvail |-> TRUE, avail |-> TRUE]

completeTrade_bookOffered(s) ==
  /\ reqs[s].kind = "completeTrade" /\ reqs[s].pc = "books"
  /\ ~reqs[s].doneOffered
  /\ BooksStep(s, "offered", trades[reqs[s].id].bookOffered,
               OfferedSwap(trades[reqs[s].id]), "respond")

completeTrade_bookRequested(s) ==
  /\ reqs[s].kind = "completeTrade" /\ reqs[s].pc = "books"
  /\ ~reqs[s].doneRequested
  /\ BooksStep(s, "requested", trades[reqs[s].id].bookRequested,
               RequestedSwap(trades[reqs[s].id]), "respond")

completeTrade_respond(s) ==
  /\ reqs[s].kind = "completeTrade" /\ reqs[s].pc = "respond"
  /\ Finish(s, 200)
  /\ UNCHANGED <<books, trades, okFromPending>>
  /\ notifications' = <<>>
  /\ UNCHANGED userBooks

\* ---- updateBook ----
\* the bodies a client sends to PUT /books/:id: any of the book's fields
UpdateBodies ==
  {[owner |-> NoUser, hasAvail |-> TRUE, avail |-> a] : a \in BOOLEAN}

IsOwner(id, user) == books[id].owner = user

updateBook(s, user, id, body) ==
  /\ CanStart(s)
  /\ LET r == [Idle EXCEPT !.kind = "updateBook", !.user = user, !.id = id,
                           !.body = body]
     IN  IF ~BookExists(id)
         THEN Reject(r, 404)
         ELSE IF ~IsOwner(id, user)
         THEN Reject(r, 403)
         ELSE Proceed(s, [r EXCEPT !.pc = "write"])

updateBook_write(s) ==
  /\ reqs[s].kind = "updateBook" /\ reqs[s].pc = "write"
  /\ books' = FindByIdAndUpdate(reqs[s].id, reqs[s].body)
  /\ resp' = Response(reqs[s].kind, 200)
  /\ UNCHANGED <<chanVars, hookVars, storeVars>>
  /\ reqs' = [reqs EXCEPT ![s] = Idle]
  /\ UNCHANGED <<trades, nreq, okFromPending>>
  /\ notifications' = <<>>
  /\ UNCHANGED userBooks

\* ---- deleteBook ----
deleteBook(s, user, id) ==
  /\ CanStart(s)
  /\ LET r == [Idle EXCEPT !.kind = "deleteBook", !.user = user, !.id = id]
     IN  IF ~BookExists(id)
         THEN Reject(r, 404)
         ELSE IF ~IsOwner(id, user)
         THEN Reject(r, 403)
         ELSE Proceed(s, [r EXCEPT !.pc = "delete"])

\* Book.findByIdAndDelete
deleteBook_delete(s) ==
  /\ reqs[s].kind = "deleteBook" /\ reqs[s].pc = "delete"
  /\ books' = IF BookExists(reqs[s].id)
              THEN [books EXCEPT ![reqs[s].id].exists = FALSE] ELSE books
  /\ reqs' = [reqs EXCEPT ![s].pc = "pull",
                          ![s].changed = @ \/ (books' # books)]
  /\ resp' = NoResp
  /\ UNCHANGED <<chanVars, hookVars, storeVars>>
  /\ UNCHANGED <<trades, nreq, okFromPending>>
  /\ notifications' = <<>>
  /\ UNCHANGED userBooks

\* the $pull on the owner's book list resolves and the handler answers
deleteBook_respond(s) ==
  /\ reqs[s].kind = "deleteBook" /\ reqs[s].pc = "pull"
  /\ Finish(s, 200)
  /\ UNCHANGED <<books, trades, okFromPending>>
  /\ notifications' = <<>>
  /\ userBooks' = [userBooks EXCEPT ![reqs[s].user] = @ \ {reqs[s].id}]

\* ---- createBook ----
\* an id no document has or had: of a book that is gone and that no trade,
\* no book list and no request in flight names
Fresh(b) ==
  /\ ~books[b].exists
  /\ \A t \in DOMAIN trades :
       b \notin {trades[t].bookOffered, trades[t].bookRequested}
  /\ \A u \in Users : b \notin userBooks[u]
  /\ \A s \in Slots : b \notin {reqs[s].id, reqs[s].bookOffered,
                                 reqs[s].bookRequested}

\* POST /books: isAvailable is the body's, or the schema's default
createBook(s, user, isAvailable) ==
  /\ CanStart(s)
  /\ \E b \in Books :
       /\ Fresh(b) /\ \A b2 \in Books : b2 < b => ~Fresh(b2)
       /\ Proceed(s, [Idle EXCEPT !.kind = "createBook", !.user = user,
                                  !.id = b, !.pc = "create",
                                  !.body = [NoUpdate EXCEPT
                                              !.hasAvail = TRUE,
                                              !.avail = isAvailable]])

\* Book.create({...req.body, owner: req.user._id})
createBook_create(s) ==
  /\ reqs[s].kind = "createBook" /\ reqs[s].pc = "create"
  /\ books' = [books EXCEPT ![reqs[s].id] =
                  [exists |-> TRUE, owner |-> reqs[s].user,
                   isAvailable |-> reqs[s].body.avail]]
  /\ reqs' = [reqs EXCEPT ![s].pc = "push", ![s].changed = TRUE]
  /\ resp' = NoResp
  /\ UNCHANGED <<chanVars, hookVars, storeVars>>
  /\ UNCHANGED <<userBooks, trades, nreq, okFromPending>>
  /\ notifications' = <<>>

\* the $push on the owner's book list resolves and the handler answers
createBook_respond(s) ==
  /\ reqs[s].kind = "createBook" /\ reqs[s].pc = "push"
  /\ Finish(s, 201)
  /\ userBooks' = [userBooks EXCEPT ![reqs[s].user] = @ \cup {reqs[s].id}]
  /\ UNCHANGED <<books, trades, okFromPending>>
  /\ notifications' = <<>>

\* ---- a database call throws ----
\* the call the handler waits on rejects: the catch block answers 500 and
\* nothing the handler wrote before is undone (completeTrade waits on no
\* call once its Promise.all has resolved)
Throws(s) ==
  /\ reqs[s].kind # "idle"
  /\ ~(reqs[s].kind = "completeTrade" /\ reqs[s].pc = "respond")
  /\ Finish(s, 500)
  /\ UNCHANGED <<books, trades, okFromPending>>
  /\ notifications' = <<>>
  /\ UNCHANGED userBooks

\* ---- specification ----
Start ==
  \/ \E s \in Slots, u \in Users, bo, br \in BookIds \cup {NoId} :
        createTrade(s, u, bo, br)
  \/ \E u \in Users : markTradesAsSeen(u)
  \/ \E u \in Users : markTradesAsSeen_throws(u)
  \/ \E s \in Slots, u \in Users, id \in TradeIds, st \in RequestedStatuses :
        updateTradeStatus(s, u, id, st)
  \/ \E s \in Slots, u \in Users, id \in TradeIds : completeTrade(s, u, id)
  \/ \E s \in Slots, u \in Users, id \in BookIds, body \in UpdateBodies :
        updateBook(s, u, id, body)
  \/ \E s \in Slots, u \in Users, id \in BookIds : deleteBook(s, u, id)
  \/ \E s \in Slots, u \in Users, avail \in BOOLEAN : createBook(s, u, avail)

Step ==
  \/ \E s \in Slots : createTrade_hookOffered(s)
  \/ \E s \in Slots : createTrade_hookRequested(s)
  \/ \E s \in Slots : createTrade_hookThrows(s)
  \/ \E s \in Slots : createTrade_insert(s)
  \/ \E s \in Slots : createTrade_respond(s)
  \/ \E s \in Slots : updateTradeStatus_bookOffered(s)
  \/ \E s \in Slots : updateTradeStatus_bookRequested(s)
  \/ \E s \in Slots : updateTradeStatus_save(s)
  \/ \E s \in Slots : updateTradeStatus_respond(s)
  \/ \E s \in Slots : completeTrade_save(s)
  \/ \E s \in Slots : completeTrade_bookOffered(s)
  \/ \E s \in Slots : completeTrade_bookRequested(s)
  \/ \E s \in Slots : completeTrade_respond(s)
  \/ \E s \in Slots : updateBook_write(s)
  \/ \E s \in Slots : deleteBook_delete(s)
  \/ \E s \in Slots : deleteBook_respond(s)
  \/ \E s \in Slots : createBook_create(s)
  \/ \E s \in Slots : createBook_respond(s)
  \/ \E s \in Slots : Throws(s)

Next == Start \/ Step

Spec == Init /\ [][Next]_vars

\* requests served one at a time: a request starts when no other is in flight
NoneInFlight == \A s \in Slots : reqs[s].kind = "idle"

SeqNext ==
  \/ NoneInFlight /\ \E s \in Slots, u \in Users, bo, br \in BookIds \cup {NoId} :
                        createTrade(s, u, bo, br)
  \/ NoneInFlight /\ \E u \in Users : markTradesAsSeen(u)
  \/ NoneInFlight /\ \E u \in Users : markTradesAsSeen_throws(u)
  \/ NoneInFlight /\ \E s \in Slots, u \in Users, id \in TradeIds,
                        st \in RequestedStatuses :
                        updateTradeStatus(s, u, id, st)
  \/ NoneInFlight /\ \E s \in Slots, u \in Users, id \in TradeIds :
                        completeTrade(s, u, id)
  \/ NoneInFlight /\ \E s \in Slots, u \in Users, id \in BookIds,
                        body \in UpdateBodies : updateBook(s, u, id, body)
  \/ NoneInFlight /\ \E s \in Slots, u \in Users, id \in BookIds :
                        deleteBook(s, u, id)
  \/ NoneInFlight /\ \E s \in Slots, u \in Users, avail \in BOOLEAN :
                        createBook(s, u, avail)
  \/ Step

SeqSpec == Init /\ [][SeqNext]_vars

TypeOK ==
  /\ \A b \in Books : books[b].owner \in Users
  /\ Len(trades) <= MaxTrades
  /\ nreq <= MaxReqs

\* ---- realtime channel: the server's side ----
\* the types of the messages the server pushes
WSMessageTypes == {"trade_request", "trade_accepted"}

\* a socket the server has accepted: bound to no user before the handshake
NewConn ==
  [userId |-> NoUser, readyState |-> "OPEN", received |-> <<>>,
   ignored |-> 0]

ChanConnect ==
  /\ Len(conns) < MaxConns
  /\ conns' = Append(conns, NewConn)
  /\ UNCHANGED <<lastBroadcast, dbVars, hookVars, storeVars>>

\* the token message: the server validates the token and binds the socket to
\* its user
ChanAuthenticate(c, user) ==
  /\ conns[c].readyState = "OPEN" /\ conns[c].userId = NoUser
  /\ conns' = [conns EXCEPT ![c].userId = user]
  /\ UNCHANGED <<lastBroadcast, dbVars, hookVars, storeVars>>

\* any other message of a socket not bound yet is ignored
ChanIgnore(c) ==
  /\ conns[c].readyState = "OPEN" /\ conns[c].userId = NoUser
  /\ conns[c].ignored < 1
  /\ conns' = [conns EXCEPT ![c].ignored = @ + 1]
  /\ UNCHANGED <<lastBroadcast, dbVars, hookVars, storeVars>>

ChanClose(c) ==
  /\ conns[c].readyState = "OPEN"
  /\ conns' = [conns EXCEPT ![c].readyState = "CLOSED"]
  /\ UNCHANGED <<lastBroadcast, dbVars, hookVars, storeVars>>

\* (every open socket, whoever it is bound to)
BroadcastToAll(cs, userId, message) ==
  [c \in DOMAIN cs |->
     IF cs[c].readyState = "OPEN"
     THEN [cs[c] EXCEPT !.received = Append(@, message)] ELSE cs[c]]

\* (the first socket of the user only)
BroadcastToFirst(cs, userId, message) ==
  [c \in DOMAIN cs |->
     IF /\ cs[c].userId = userId /\ cs[c].readyState = "OPEN"
        /\ \A c2 \in 1..(c - 1) :
              ~(cs[c2].userId = userId /\ cs[c2].readyState = "OPEN")
     THEN [cs[c] EXCEPT !.received = Append(@, message)] ELSE cs[c]]

\* wss.clients.forEach: send to the sockets of the user that are open
BroadcastToUser(cs, userId, message) ==
  [c \in DOMAIN cs |->
     IF cs[c].userId = userId /\ cs[c].readyState = "OPEN"
     THEN [cs[c] EXCEPT !.received = Append(@, message)] ELSE cs[c]]

broadcastToUser(userId, message) ==
  /\ \A c \in DOMAIN conns : Len(conns[c].received) < MaxReceived
  /\ conns' = BroadcastToUser(conns, userId, message)
  /\ lastBroadcast' = [userId |-> userId, message |-> message]
  /\ UNCHANGED <<dbVars, hookVars, storeVars>>

ChanNext ==
  \/ ChanConnect
  \/ \E c \in DOMAIN conns, u \in Users : ChanAuthenticate(c, u)
  \/ \E c \in DOMAIN conns : ChanIgnore(c)
  \/ \E c \in DOMAIN conns : ChanClose(c)
  \/ \E u \in Users, m \in WSMessageTypes : broadcastToUser(u, m)

ChanSpec == Init /\ [][ChanNext]_vars

\* ---- realtime channel: the client's hook ----
reconnectDelay == 5000

Options == [token : BOOLEAN, autoReconnect : BOOLEAN, notifications : BOOLEAN]

\* the refs and what they refer to, as one value the functions below pass on;
\* the timer that fired in the step before is over
HookState ==
  [wsRef |-> wsRef, reconnectTimerRef |-> reconnectTimerRef,
   sockets |-> sockets,
   timers |-> [t \in TimerIds |->
                 IF timers[t].state = "fired"
                 THEN [timers[t] EXCEPT !.state = "over"] ELSE timers[t]]]

Live(socks, i) == socks[i].readyState \in {"CONNECTING", "OPEN", "CLOSING"}

Pending(tms, t) == tms[t].state = "pending"

\* the sockets that can still close and the timers that can still fire
Load ==
  Cardinality({i \in SocketIds : Live(sockets, i)})
    + Cardinality({t \in TimerIds : Pending(timers, t)})

\* a closed socket no ref holds and a timer that is over and no ref holds are
\* gone; a timer waits for no timer that is over
Collected(h) ==
  [h EXCEPT
     !.sockets = [i \in SocketIds |->
                    IF h.sockets[i].readyState = "CLOSED" /\ i # h.wsRef
                    THEN NoSocket ELSE h.sockets[i]],
     !.timers = [t \in TimerIds |->
                   IF h.timers[t].state = "over" /\ t # h.reconnectTimerRef
                   THEN NoTimer
                   ELSE [h.timers[t] EXCEPT
                           !.behind = {u \in @ : Pending(h.timers, u)}]]]

Free(f) ==
  CHOOSE i \in DOMAIN f :
    /\ f[i] \in {NoSocket, NoTimer}
    /\ \A j \in DOMAIN f : j < i => f[j] \notin {NoSocket, NoTimer}

\* window.setTimeout: the timer fires after the timers of at most its delay
\* that were set before it
SetTimeout(tms, delay) ==
  [tms EXCEPT ![Free(tms)] =
     [state |-> "pending", delay |-> delay,
      behind |-> {u \in TimerIds : Pending(tms, u) /\ tms[u].delay <= delay},
      stale |-> FALSE]]

\* (no timer is set)
ScheduleNothing(h) == h

\* reconnectTimerRef.current = window.setTimeout(connect, reconnectDelay)
ScheduleReconnect(h) ==
  IF options.autoReconnect
  THEN [h EXCEPT !.timers = SetTimeout(h.timers, reconnectDelay),
                 !.reconnectTimerRef = Free(h.timers)]
  ELSE h

\* connect(): throws says whether new WebSocket(fullUrl) throws
connect(h, throws) ==
  IF ~options.token /\ options.notifications THEN h
  ELSE IF throws THEN ScheduleReconnect(h)
  ELSE [h EXCEPT
          !.sockets[Free(h.sockets)] =
             [readyState |-> "CONNECTING", onclose |-> TRUE,
              sent |-> <<>>, stale |-> FALSE],
          !.wsRef = Free(h.sockets)]

\* ws.close()
Close(socks, i) ==
  IF socks[i].readyState \in {"CONNECTING", "OPEN"}
  THEN [socks EXCEPT ![i].readyState = "CLOSING"] ELSE socks

\* the cleanup of the effect
cleanup(h) ==
  LET timersCleared ==
        IF h.reconnectTimerRef # NoId
        THEN [h.timers EXCEPT ![h.reconnectTimerRef].state = "over"]
        ELSE h.timers
      closed ==
        IF h.wsRef # NoId
        THEN Close([h.sockets EXCEPT ![h.wsRef].onclose = FALSE], h.wsRef)
        ELSE h.sockets
  IN  [wsRef |-> h.wsRef, reconnectTimerRef |-> NoId,
       sockets |-> [i \in SocketIds |->
                      IF closed[i] = NoSocket THEN NoSocket
                      ELSE [closed[i] EXCEPT !.stale = TRUE]],
       timers |-> [t \in TimerIds |->
                     IF timersCleared[t] = NoTimer THEN NoTimer
                     ELSE [timersCleared[t] EXCEPT !.stale = TRUE]]]

\* the refs and what they refer to after the step
Becomes(h0) ==
  \E h1 \in {h0} : \E h \in {Collected(h1)} :
    /\ wsRef' = h.wsRef
    /\ reconnectTimerRef' = h.reconnectTimerRef
    /\ sockets' = h.sockets
    /\ timers' = h.timers

\* the component mounts: the effect runs connect()
Mount(throws) ==
  /\ mounted = "no"
  /\ mounted' = "yes"
  /\ \E h \in {HookState} : Becomes(connect(h, throws))
  /\ lastSend' = "none"
  /\ UNCHANGED <<options, dbVars, chanVars, storeVars>>

\* connect changed identity: the cleanup runs, then the effect again
EffectRerun(throws) ==
  /\ mounted = "yes"
  /\ Load < MaxLive
  /\ \E h0 \in {HookState} : \E h \in {cleanup(h0)} :
       Becomes(connect(h, throws))
  /\ lastSend' = "none"
  /\ UNCHANGED <<options, mounted, dbVars, chanVars, storeVars>>

Unmount ==
  /\ mounted = "yes"
  /\ mounted' = "gone"
  /\ \E h \in {HookState} : Becomes(cleanup(h))
  /\ lastSend' = "none"
  /\ UNCHANGED <<options, dbVars, chanVars, storeVars>>

\* (nothing is sent)
OnOpenSendsNothing(token) == <<>>

\* ws.onopen: what it sends
OnOpenSends(token) == IF token THEN <<"token">> ELSE <<>>

\* the connection of socket i is established
onopen(i) ==
  /\ sockets[i].readyState = "CONNECTING"
  /\ \E h \in {HookState} :
       Becomes([h EXCEPT !.sockets[i].readyState = "OPEN",
                         !.sockets[i].sent = OnOpenSends(options.token)])
  /\ lastSend' = "none"
  /\ UNCHANGED <<options, mounted, dbVars, chanVars, storeVars>>

\* socket i is closed (the connection failed, the server closed it, or
\* close() has finished): ws.onclose, when still attached
onclose(i) ==
  /\ Live(sockets, i)
  /\ \E h0 \in {HookState} :
       \E h \in {[h0 EXCEPT !.sockets[i].readyState = "CLOSED"]} :
         Becomes(IF sockets[i].onclose THEN ScheduleReconnect(h) ELSE h)
  /\ lastSend' = "none"
  /\ UNCHANGED <<options, mounted, dbVars, chanVars, storeVars>>

\* timer t fires and runs connect()
TimerFires(t, throws) ==
  /\ Pending(timers, t)
  /\ \A u \in timers[t].behind : ~Pending(timers, u)
  /\ \E h0 \in {HookState} :
       \E h \in {[h0 EXCEPT !.timers[t].state = "fired"]} :
         Becomes(connect(h, throws))
  /\ lastSend' = "none"
  /\ UNCHANGED <<options, mounted, dbVars, chanVars, storeVars>>

\* reconnect(): close the current socket, then setTimeout(connect, 0)
reconnect ==
  /\ mounted = "yes"
  /\ Load < MaxLive
  /\ \E h \in {HookState} :
       Becomes([h EXCEPT
                  !.sockets = IF wsRef # NoId THEN Close(@, wsRef) ELSE @,
                  !.timers = SetTimeout(@, 0)])
  /\ lastSend' = "none"
  /\ UNCHANGED <<options, mounted, dbVars, chanVars, storeVars>>

\* sendMessage(data): lastSend is what it returns
sendMessage ==
  /\ mounted = "yes"
  /\ IF wsRef = NoId \/ sockets[wsRef].readyState # "OPEN"
     THEN /\ lastSend' = "false"
          /\ sockets' = sockets
     ELSE /\ Len(sockets[wsRef].sent) < MaxSent
          /\ sockets' = [sockets EXCEPT ![wsRef].sent = Append(@, "data")]
          /\ lastSend' = "true"
  /\ UNCHANGED <<options, mounted, wsRef, reconnectTimerRef, timers, dbVars,
                 chanVars, storeVars>>

HookNext ==
  \/ \E throws \in BOOLEAN : Mount(throws)
  \/ \E throws \in BOOLEAN : EffectRerun(throws)
  \/ Unmount
  \/ \E i \in SocketIds : onopen(i)
  \/ \E i \in SocketIds : onclose(i)
  \/ \E t \in TimerIds, throws \in BOOLEAN : TimerFires(t, throws)
  \/ reconnect
  \/ sendMessage

HookInit ==
  DbInit /\ ChanInit /\ StoreDown(1) /\ \E opts \in Options : HookDown(opts)

HookSpec == HookInit /\ [][HookNext]_vars

\* the hook of NotificationCenter, whose page lives on: a timer that is due
\* fires
HookFairSpec ==
  /\ Init
  /\ [][HookNext]_vars
  /\ \A t \in TimerIds :
       WF_vars(\E throws \in BOOLEAN : TimerFires(t, throws))

\* ---- the client's store ----
\* a call of the store, served before anything else happens: what it
\* answers and the collections afterwards
Failed == [ok |-> FALSE, trades |-> trades, books |-> books, id |-> NoId]

Answered(trs, bks, id) == [ok |-> TRUE, trades |-> trs, books |-> bks, id |-> id]

\* both writes of a Promise.all, the one on `first` first
BothUpdated(first, second, upd1, upd2) ==
  LET once == IF BookExists(first)
              THEN [books EXCEPT ![first] = ApplyUpdate(@, upd1)] ELSE books
  IN  IF BookExists(second)
      THEN [once EXCEPT ![second] = ApplyUpdate(@, upd2)] ELSE once

\* POST /trades
Served_createTrade(user, bookOffered, bookRequested) ==
  IF \/ bookOffered = NoId \/ bookRequested = NoId
     \/ ~BookExists(bookRequested)
     \/ ~(HookAccepts(bookOffered) /\ HookAccepts(bookRequested))
  THEN Failed
  ELSE Answered(Append(trades,
                       NewTrade([Idle EXCEPT
                                   !.user = user,
                                   !.bookOffered = bookOffered,
                                   !.bookRequested = bookRequested,
                                   !.receiver = books[bookRequested].owner])),
                books, Len(trades) + 1)

\* PUT /trades/:id
Served_updateTradeStatus(user, id, status, offeredFirst) ==
  IF ~IsValidStatus(status) \/ ~TradeExists(id) THEN Failed
  ELSE IF ~MayUpdate(trades[id], user) THEN Failed
  ELSE LET trade == trades[id]
           r == [Idle EXCEPT !.docStatus = trade.status,
                             !.docIsSeen = trade.isSeen]
       IN  Answered([trades EXCEPT ![id] = SaveTrade(@, r, status, TRUE)],
                    IF status # "accepted" THEN books
                    ELSE IF offeredFirst
                    THEN BothUpdated(trade.bookOffered, trade.bookRequested,
                                     AcceptUpdate, AcceptUpdate)
                    ELSE BothUpdated(trade.bookRequested, trade.bookOffered,
                                     AcceptUpdate, AcceptUpdate),
                    id)

\* PUT /trades/:id/complete
Served_completeTrade(user, id, offeredFirst) ==
  IF ~TradeExists(id) THEN Failed
  ELSE IF ~IsTradeParticipant(trades[id], user) \/ ~MayComplete(trades[id])
  THEN Failed
  ELSE LET trade == trades[id]
           r == [Idle EXCEPT !.docStatus = trade.status,
                             !.docIsSeen = trade.isSeen]
       IN  Answered([trades EXCEPT
                       ![id] = SaveTrade(@, r, "completed", trade.isSeen)],
                    IF offeredFirst
                    THEN BothUpdated(trade.bookOffered, trade.bookRequested,
                                     OfferedSwap(trade), RequestedSwap(trade))
                    ELSE BothUpdated(trade.bookRequested, trade.bookOffered,
                                     RequestedSwap(trade), OfferedSwap(trade)),
                    id)

\* PUT /trades/mark-seen
Served_markTradesAsSeen(user) == Answered(MarkSeen(trades, user), books, NoId)

\* GET /trades: the trades the user takes part in
getUserTrades(user) ==
  [id \in 1..MaxTrades |->
     IF TradeExists(id) /\ IsTradeParticipant(trades[id], user)
     THEN trades[id] ELSE NoTrade]

\* the collections after the call; the store's requests are not the ones
\* the other specifications follow through their handlers
Serve(res) ==
  /\ trades' = res.trades
  /\ books' = res.books
  /\ UNCHANGED <<userBooks, reqs, resp, nreq, okFromPending, notifications>>
  /\ UNCHANGED <<chanVars, hookVars>>

\* the calls the store can make and the calls of the other users
StoreCalls(user) ==
  [kind : {"createTrade"}, user : {user}, bookOffered : BookIds,
   bookRequested : BookIds, id : {NoId}, status : {"none"},
   offeredFirst : {TRUE}]
  \cup [kind : {"updateTradeStatus"}, user : {user}, bookOffered : {NoId},
        bookRequested : {NoId}, id : TradeIds, status : RequestedStatuses,
        offeredFirst : BOOLEAN]
  \cup [kind : {"completeTrade"}, user : {user}, bookOffered : {NoId},
        bookRequested : {NoId}, id : TradeIds, status : {"none"},
        offeredFirst : BOOLEAN]
  \cup [kind : {"markTradesAsSeen"}, user : {user}, bookOffered : {NoId},
        bookRequested : {NoId}, id : {NoId}, status : {"none"},
        offeredFirst : {TRUE}]

Served(c) ==
  IF c.kind = "createTrade"
  THEN Served_createTrade(c.user, c.bookOffered, c.bookRequested)
  ELSE IF c.kind = "updateTradeStatus"
  THEN Served_updateTradeStatus(c.user, c.id, c.status, c.offeredFirst)
  ELSE IF c.kind = "completeTrade"
  THEN Served_completeTrade(c.user, c.id, c.offeredFirst)
  ELSE Served_markTradesAsSeen(c.user)

\* another browser's call
OtherCall(c) ==
  /\ c.kind = "createTrade" => Len(trades) < MaxTrades
  /\ Served(c).ok
  /\ Serve(Served(c))
  /\ UNCHANGED storeVars

shouldMarkTradeAsSeen(trade, currentUserId) ==
  trade.status = "pending" /\ ~trade.isSeen /\ trade.receiver = currentUserId

calculateUnseenTradesCount(trs, currentUserId) ==
  Cardinality({id \in DOMAIN trs : shouldMarkTradeAsSeen(trs[id], currentUserId)})

\* fetchUserTrades: fails says the GET fails; the catch blocks of the store
\* leave the list and the count as they are
fetchUserTrades(fails) ==
  IF fails THEN UNCHANGED vars
  ELSE /\ storeTrades' = getUserTrades(currentUser)
       /\ unseenTradesCount' =
            calculateUnseenTradesCount(getUserTrades(currentUser), currentUser)
       /\ UNCHANGED <<currentUser, dbVars, chanVars, hookVars>>

\* proposeTrade: the answer is appended to the list
proposeTrade(bookOffered, bookRequested) ==
  /\ Len(trades) < MaxTrades
  /\ \E res \in {Served_createTrade(currentUser, bookOffered, bookRequested)} :
       IF ~res.ok THEN UNCHANGED vars
       ELSE /\ Serve(res)
            /\ storeTrades' =
                 [storeTrades EXCEPT ![res.id] = res.trades[res.id]]
            /\ UNCHANGED <<currentUser, unseenTradesCount>>

\* markTradesAsSeen of the store
store_markTradesAsSeen(fails) ==
  \E res \in {Served_markTradesAsSeen(currentUser)} :
    IF fails THEN UNCHANGED vars
    ELSE /\ Serve(res)
         /\ storeTrades' =
              [id \in 1..MaxTrades |->
                 IF shouldMarkTradeAsSeen(storeTrades[id], currentUser)
                 THEN [storeTrades[id] EXCEPT !.isSeen = TRUE]
                 ELSE storeTrades[id]]
         /\ unseenTradesCount' = 0
         /\ UNCHANGED currentUser

\* updateTradeStatus of the store: the answer replaces the trade of that id
\* in the list
store_updateTradeStatus(id, status, offeredFirst) ==
  \E res \in {Served_updateTradeStatus(currentUser, id, status, offeredFirst)} :
    IF ~res.ok THEN UNCHANGED vars
    ELSE /\ Serve(res)
         /\ storeTrades' =
              [storeTrades EXCEPT
                 ![id] = IF @ = NoTrade THEN @ ELSE res.trades[id]]
         /\ UNCHANGED <<currentUser, unseenTradesCount>>

\* completeTrade of the store: the trade of that id in the list is completed
store_completeTrade(id, offeredFirst) ==
  \E res \in {Served_completeTrade(currentUser, id, offeredFirst)} :
    IF ~res.ok THEN UNCHANGED vars
    ELSE /\ Serve(res)
         /\ storeTrades' =
              [storeTrades EXCEPT
                 ![id] = IF @ = NoTrade THEN @
                         ELSE [@ EXCEPT !.status = "completed"]]
         /\ UNCHANGED <<currentUser, unseenTradesCount>>

StoreNext ==
  \/ \E fails \in BOOLEAN : fetchUserTrades(fails)
  \/ \E bo, br \in BookIds : proposeTrade(bo, br)
  \/ \E fails \in BOOLEAN : store_markTradesAsSeen(fails)
  \/ \E id \in TradeIds, st \in RequestedStatuses, first \in BOOLEAN :
        store_updateTradeStatus(id, st, first)
  \/ \E id \in TradeIds, first \in BOOLEAN : store_completeTrade(id, first)
  \/ \E u \in Users \ {currentUser} : \E c \in StoreCalls(u) : OtherCall(c)

StoreInit ==
  /\ DbInit /\ ChanInit /\ HookDown(NotificationOptions)
  /\ \E u \in Users : StoreDown(u)

StoreSpec == StoreInit /\ [][StoreNext]_vars

\* ---- properties ----
Active(t) == trades[t].status \in {"pending", "accepted"}

Refs(t, b) == b \in {trades[t].bookOffered, trades[t].bookRequested}

ShareBook(t1, t2) == \E b \in Books : Refs(t1, b) /\ Refs(t2, b)

\* the step in which request s answers with `code`
Answers(s, kind, code) ==
  /\ reqs[s].kind = kind
  /\ reqs'[s].kind = "idle"
  /\ resp' = Response(kind, code)

AllowedEdges ==
  {<<"pending", "accepted">>, <<"pending", "rejected">>,
   <<"pending", "cancelled">>, <<"accepted", "completed">>}

\* C1: a trade's status changes only along pending->accepted,
\* pending->rejected, pending->cancelled and accepted->completed, so a
\* completed, rejected or cancelled trade keeps its status for good.
C1_StatusFollowsEdges ==
  [][\A t \in DOMAIN trades :
       trades'[t].status # trades[t].status
         => <<trades[t].status, trades'[t].status>> \in AllowedEdges]_vars

C3_NoDoubleAccept ==
  \A t1, t2 \in DOMAIN trades :
    (t1 # t2 /\ ShareBook(t1, t2))
      => ~(trades[t1].status = "accepted" /\ trades[t2].status = "accepted")

\* C4: of the updateStatus requests that found the same trade pending
\* (accepted with accepted, or accepted with rejected), exactly one is
\* answered with success: never two.
C4_OneWinnerPerTrade ==
  \A t \in 1..MaxTrades :
    (\E i \in DOMAIN okFromPending[t] : okFromPending[t][i] = "accepted")
      => Len(okFromPending[t]) <= 1

\* C5: every book is referenced by at most one pending or accepted trade.
C5_OneActiveTradePerBook ==
  \A b \in Books :
    Cardinality({t \in DOMAIN trades : Active(t) /\ Refs(t, b)}) <= 1

\* C6: every unavailable book is referenced by a pending or accepted trade,
\* or by a trade whose completion is in progress.
C6_UnavailableHasActiveTrade ==
  \A b \in Books :
    (books[b].exists /\ ~books[b].isAvailable)
      => \/ \E t \in DOMAIN trades : Active(t) /\ Refs(t, b)
         \/ \E s \in Slots : reqs[s].kind = "completeTrade"
                             /\ Refs(reqs[s].id, b)

\* C7: an updateStatus or completeTrade request that is answered with an
\* error has changed neither the trade nor a book.
C7_FailureChangesNothing ==
  [][\A s \in Slots, code \in {400, 403, 404, 500} :
       (Answers(s, "updateTradeStatus", code)
        \/ Answers(s, "completeTrade", code)) => ~reqs[s].changed]_vars

\* C8: the writes of a completion appear together: whenever the trade of a
\* completeTrade request in flight has been written, so have both books,
\* and never exactly one of the two books.
C8_SwapIsAtomic ==
  \A s \in Slots :
    reqs[s].kind = "completeTrade"
      => /\ reqs[s].pc # "save"
              => (reqs[s].doneOffered /\ reqs[s].doneRequested)
         /\ reqs[s].doneOffered <=> reqs[s].doneRequested

\* the state a completed swap leaves behind
Swapped(t) ==
  /\ books[trades[t].bookOffered].owner = trades[t].receiver
  /\ books[trades[t].bookRequested].owner = trades[t].initiator
  /\ books[trades[t].bookOffered].isAvailable
  /\ books[trades[t].bookRequested].isAvailable
  /\ trades[t].status = "completed"

\* C9: when completeTrade by a participant on an accepted trade is answered
\* with success, bookOffered belongs to the receiver, bookRequested to the
\* initiator, both books are available and the trade is completed.
C9_CompleteSwapsOwners ==
  [][\A s \in Slots, t \in DOMAIN trades :
       (/\ Answers(s, "completeTrade", 200)
        /\ reqs[s].id = t
        /\ reqs[s].docStatus = "accepted") => Swapped(t)']_vars

\* the state an accept leaves behind (a book deleted meanwhile has no record
\* left to be available)
Accepted(t) ==
  /\ \A b \in Books : (Refs(t, b) /\ BookExists(b)) => ~books[b].isAvailable
  /\ trades[t].status = "accepted"
  /\ trades[t].isSeen

ExpectedTrade(r) ==
  [initiator |-> r.user, receiver |-> books[r.bookRequested].owner,
   bookOffered |-> r.bookOffered, bookRequested |-> r.bookRequested,
   status |-> "pending", isSeen |-> FALSE]

HookFoundUnavailable(s) ==
  /\ reqs[s].kind = "createTrade" /\ reqs[s].pc = "hook"
  /\ reqs[s].doneOffered /\ reqs[s].doneRequested
  /\ \E b \in {reqs[s].bookOffered, reqs[s].bookRequested} :
        BookExists(b) /\ ~books[b].isAvailable

\* C12: a createTrade request whose bookOffered or bookRequested is
\* unavailable is answered 409 (ConflictError), creates no trade and changes
\* no book.
C12_UnavailableBookIsConflict ==
  [][\A s \in Slots :
       (HookFoundUnavailable(s) /\ reqs'[s].kind = "idle")
         => /\ resp' = Response("createTrade", 409)
            /\ trades' = trades /\ ~reqs[s].changed
            /\ books' = books]_vars

\* C13: an updateStatus request on a trade that is not pending is answered
\* 409 (ConflictError), whatever the requested status and for every actor
\* the authorization lets through, and has changed neither the trade nor a
\* book (a request cut short by a failing database call is answered 500).
C13_NonPendingIsConflict ==
  [][\A s \in Slots, code \in {200, 400, 403, 404, 409} :
       (/\ Answers(s, "updateTradeStatus", code)
        /\ reqs[s].docStatus # "pending")
         => code = 409 /\ ~reqs[s].changed]_vars

\* C14: an updateStatus request is answered with success for accepted or
\* rejected only when its caller is the trade's receiver, and for cancelled
\* only when its caller is the trade's initiator.
C14_ActorMatchesStatus ==
  [][\A s \in Slots, t \in DOMAIN trades :
       (Answers(s, "updateTradeStatus", 200) /\ reqs[s].id = t)
         => /\ reqs[s].status \in {"accepted", "rejected"}
                 => reqs[s].user = trades[t].receiver
            /\ reqs[s].status = "cancelled"
                 => reqs[s].user = trades[t].initiator]_vars

\* the step in which a request of this kind arrives and is answered at once
AnswersAtOnce(kind) ==
  /\ resp'.kind = kind
  /\ reqs' = reqs
  /\ nreq' # nreq

\* C15: completeTrade goes ahead only for a participant on an accepted
\* trade; turned away, it is answered 409 (ConflictError) when the trade is
\* not accepted, 403 when the caller is no participant (404 when there is
\* no trade), and trade and books are unchanged.
C15_CompleteFailures ==
  [][/\ \A s \in Slots, t \in DOMAIN trades :
          (reqs[s].kind = "idle" /\ reqs'[s].kind = "completeTrade"
           /\ reqs'[s].id = t)
            => /\ IsTradeParticipant(trades[t], reqs'[s].user)
               /\ trades[t].status = "accepted"
     /\ AnswersAtOnce("completeTrade")
          => /\ resp'.code \in {403, 404, 409}
             /\ resp'.code = 409
                  => \E t \in DOMAIN trades : trades[t].status # "accepted"
             /\ resp'.code = 403
                  => \E t \in DOMAIN trades, u \in Users :
                       ~IsTradeParticipant(trades[t], u)
             /\ trades' = trades /\ books' = books]_vars

\* C16: every pending or accepted trade references two existing books:
\* deleteBook does not remove a book such a trade references.
C16_ActiveTradeBooksExist ==
  \A t \in DOMAIN trades :
    Active(t) => /\ BookExists(trades[t].bookOffered)
                 /\ BookExists(trades[t].bookRequested)

\* what the claim expects of markSeen(user): the user's pending received
\* trades seen, every other trade as it was
SeenPendingOf(trs, user) ==
  [t \in DOMAIN trs |->
     IF trs[t].receiver = user /\ trs[t].status = "pending"
     THEN [trs[t] EXCEPT !.isSeen = TRUE] ELSE trs[t]]

\* C17: a successful markSeen sets isSeen on exactly the trades its user
\* receives and that are pending, and changes nothing else: no status, no
\* trade received by another user, no trade in another status, no book.
C17_MarkSeenFrame ==
  [][(AnswersAtOnce("markTradesAsSeen") /\ resp'.code = 200)
       => /\ \E u \in Users : trades' = SeenPendingOf(trades, u)
          /\ books' = books]_vars

\* markSeen has just marked a pending trade and left an unseen trade of
\* another receiver alone
C17_Witness ==
  /\ resp = Response("markTradesAsSeen", 200)
  /\ \E t1, t2 \in DOMAIN trades :
        /\ trades[t1].status = "pending" /\ trades[t1].isSeen
        /\ trades[t2].receiver # trades[t1].receiver /\ ~trades[t2].isSeen

\* C18: markSeen is idempotent: after a markSeen of a user, the same call
\* again leaves every trade as it is (and writes no book); the handler has
\* no answer but success, a failing database call apart.
C18_MarkSeenIdempotent ==
  [][AnswersAtOnce("markTradesAsSeen")
       => /\ resp'.code \in {200, 500}
          /\ \A u \in Users :
               (resp'.code = 200 /\ trades' = MarkSeen(trades, u))
                 => MarkSeen(trades', u) = trades'
          /\ books' = books]_vars

\* markSeen has marked a trade and is called again, changing nothing
C18_Witness ==
  /\ resp = Response("markTradesAsSeen", 200)
  /\ \E t \in DOMAIN trades, u \in Users :
        /\ trades[t].receiver = u /\ trades[t].isSeen
        /\ trades[t].status = "pending"
        /\ MarkSeen(trades, u) = trades

\* C19: every successful updateStatus emits exactly one notification, for
\* the trade's initiator, of type trade_accepted when the new status is
\* accepted and trade_rejected when it is rejected; trade_rejected is
\* emitted only for a new status rejected; and an updateStatus that fails
\* emits none.
C19_UpdateNotifiesInitiator ==
  [][/\ \A s \in Slots, t \in DOMAIN trades :
          (Answers(s, "updateTradeStatus", 200) /\ reqs[s].id = t)
            => /\ Len(notifications') = 1
               /\ LET n == notifications'[1]
                  IN  /\ n.userId = trades[t].initiator
                      /\ n.relatedId = t
                      /\ reqs[s].status = "accepted"
                           => n.type = "trade_accepted"
                      /\ reqs[s].status = "rejected"
                           => n.type = "trade_rejected"
                      /\ n.type = "trade_rejected"
                           => reqs[s].status = "rejected"
     /\ \A s \in Slots :
          (reqs[s].kind = "updateTradeStatus"
           /\ ~Answers(s, "updateTradeStatus", 200))
            => notifications' = <<>>
     /\ AnswersAtOnce("updateTradeStatus")
          => notifications' = <<>>]_vars

\* C20: every successful completeTrade emits a trade_completed notification
\* to both participants, the initiator and the receiver, whoever of them
\* completed the trade.
C20_CompleteNotifiesBoth ==
  [][\A s \in Slots, t \in DOMAIN trades :
       (Answers(s, "completeTrade", 200) /\ reqs[s].id = t)
         => \A u \in {trades[t].initiator, trades[t].receiver} :
              \E i \in DOMAIN notifications' :
                /\ notifications'[i].userId = u
                /\ notifications'[i].type = "trade_completed"
                /\ notifications'[i].relatedId = t]_vars

LiveOf(cs, userId) ==
  {c \in DOMAIN cs : cs[c].userId = userId /\ cs[c].readyState = "OPEN"}

C23_NoDeliveryBeforeHandshake ==
  [][\A c \in DOMAIN conns :
       /\ conns[c].userId = NoUser
            => conns'[c].received = conns[c].received
       /\ conns'[c].ignored # conns[c].ignored
            => /\ conns'[c].userId = NoUser
               /\ \A c2 \in DOMAIN conns :
                    conns'[c2].received = conns[c2].received]_vars

\* a message was sent while a connection waited for its handshake, and the
\* connection got nothing
C23_Witness ==
  /\ lastBroadcast.userId # NoUser
  /\ \E c1, c2 \in DOMAIN conns :
        /\ conns[c1].userId = NoUser /\ conns[c1].readyState = "OPEN"
        /\ conns[c1].received = <<>> /\ conns[c1].ignored = 1
        /\ conns[c2].received # <<>>

\* socket i closes in the step with its onclose handler attached
ClosesUnexpectedly(i) ==
  Live(sockets, i) /\ ~Live(sockets', i) /\ sockets[i].onclose

\* the step sets a timer of reconnectDelay that reconnectTimerRef holds
SchedulesReconnect ==
  \E t \in TimerIds :
    /\ ~Pending(timers, t) /\ Pending(timers', t)
    /\ timers'[t].delay = reconnectDelay
    /\ reconnectTimerRef' = t

\* the step creates a socket, which wsRef holds
CreatesSocket ==
  \E i \in SocketIds :
    /\ ~Live(sockets, i)
    /\ sockets'[i].readyState = "CONNECTING" /\ sockets'[i].onclose
    /\ wsRef' = i

C25_OneAttemptInFlight ==
  /\ Cardinality({t \in TimerIds : Pending(timers, t)}) <= 1
  /\ Cardinality({i \in SocketIds :
                    sockets[i].readyState \in {"CONNECTING", "OPEN"}}) <= 1

\* socket i got a data message in the step
GetsData(i) ==
  /\ Len(sockets'[i].sent) > Len(sockets[i].sent)
  /\ sockets'[i].sent[Len(sockets'[i].sent)] = "data"

C27_NothingSurvivesCleanup ==
  [][/\ \A t \in TimerIds :
          (timers[t].stale /\ Pending(timers, t))
            => timers'[t].state # "fired"
     /\ \A i \in SocketIds :
          (sockets[i].stale /\ Live(sockets, i) /\ ~Live(sockets', i))
            => \A t \in TimerIds : Pending(timers', t) => Pending(timers, t)]_vars

\* C28: a step of completeTrade that changes the owner of a book finds the
\* book owned by a participant of the trade: bookOffered by the initiator,
\* bookRequested by the receiver.
C28_SwapsOnlyParticipantsBooks ==
  [][\A s \in Slots, b \in Books :
       (/\ reqs[s].kind = "completeTrade" /\ reqs[s].pc = "books"
        /\ reqs'[s] # reqs[s]
        /\ books'[b].owner # books[b].owner)
         => LET trade == trades[reqs[s].id]
            IN  /\ IsTradeParticipant(trade, books[b].owner)
                /\ b = trade.bookOffered => books[b].owner = trade.initiator
                /\ b = trade.bookRequested => books[b].owner = trade.receiver]_vars

\* the books of the collection a user owns
OwnedBy(user) == {b \in Books : BookExists(b) /\ books[b].owner = user}

\* C29: whenever no request is in flight, each user's books list holds
\* exactly the existing books whose owner is that user.
C29_BookListsMatchOwners ==
  NoneInFlight => \A u \in Users : userBooks[u] = OwnedBy(u)

\* C30: after every action of the store unseenTradesCount is the number of
\* trades of its list that are pending, unseen and received by the current
\* user.
C30_CountMatchesList ==
  unseenTradesCount = calculateUnseenTradesCount(storeTrades, currentUser)

====
